---- MODULE Spec2Model ----
(***************************************************************************)
(* Model of the Cordova integration of the setup wizard                    *)
(* (src/lib/Steps/Integrations/Cordova.ts): the Xcode project patch        *)
(* (patchXcodeProj / unpatchXcodeProj), the platform decision rule         *)
(* (shouldConfigurePlatform) and the per-platform orchestration (emit /    *)
(* uninstall).                                                             *)
(*                                                                         *)
(* Text is modelled as a sequence of tokens, each token a fragment of the  *)
(* text; the regular expressions of the source are evaluated over the      *)
(* tokens.  A project file is either malformed or holds a descriptor and a *)
(* flag telling whether its bytes are the ones writeSync() produces for    *)
(* that descriptor.                                                        *)
(***************************************************************************)
EXTENDS Naturals, Sequences, FiniteSets, TLC

(***************************************************************************)
(* Bounds of the model.                                                    *)
(***************************************************************************)
NumPhases == 2
MaxTargets == 2
MaxOps == 2
MaxPlatforms == 2
MaxMajor == 2

(***************************************************************************)
(* Text fragments and the three regular expressions of Cordova.ts.         *)
(***************************************************************************)
Quote == "\""
Space == " "
CliDir == "@sentry/cli/bin/"
CliName == "sentry-cli"
CliNameUpper == "SENTRY-CLI"
SubCommand == "upload-dsym"
WordChar == "s"
ExportLine == "export SENTRY_PROPERTIES=sentry.properties\\n../../plugins/cordova-plugin-sentry/node_modules/"

\* \s : a white-space fragment
IsSpace(t) == t = Space

\* the fragment starts with a word character (\w), so no \b lies before it
StartsWithWordChar(t) == t \in {CliName, CliNameUpper, SubCommand, WordChar, ExportLine}

\* body[i] is "sentry-cli", followed by \s+ and then "upload-dsym" at position j
CliThenSubCommand(body, i, j) ==
    /\ body[i] = CliName
    /\ j > i + 1
    /\ \A k \in (i + 1)..(j - 1) : IsSpace(body[k])
    /\ body[j] = SubCommand

\* /sentry-cli\s+upload-dsym/ , Cordova.ts line 163
ApplyPattern(body) ==
    \E i \in 1..Len(body) : \E j \in 1..Len(body) : CliThenSubCommand(body, i, j)

\* /@sentry\/cli\/bin\/sentry-cli\s+upload-dsym\b/ , Cordova.ts line 109
RevertPattern(body) ==
    \E i \in 2..Len(body) : \E j \in 1..Len(body) :
        /\ body[i - 1] = CliDir
        /\ CliThenSubCommand(body, i, j)
        /\ (j = Len(body) \/ ~StartsWithWordChar(body[j + 1]))

\* /sentry-cli/gi , Cordova.ts line 66
ConfigPattern(body) ==
    \E i \in 1..Len(body) : body[i] \in {CliName, CliNameUpper}

\* the shell script of the build phase Apply adds, Cordova.ts lines 175-177,
\* as addBuildPhase stores it (wrapped in double quotes)
AddedScript == <<Quote, ExportLine, CliDir, CliName, Space, SubCommand, Quote>>

(***************************************************************************)
(* The project descriptor (proj.hash.project.objects).                     *)
(*   scripts : the PBXShellScriptBuildPhase section, key -> entry; the     *)
(*             entry of a key K is a phase record, the entry of             *)
(*             K \o "_comment" is a string.                                 *)
(*   targets : the PBXNativeTarget section in the order of the library;    *)
(*             a target may have no buildPhases field.                     *)
(***************************************************************************)
PhaseEntry(body) == [isa |-> "PBXShellScriptBuildPhase", shellScript |-> body]
CommentEntry(text) == [string |-> text]
IsString(entry) == "string" \in DOMAIN entry
HasIsa(entry) == "isa" \in DOMAIN entry
CommentKey(key) == key \o "_comment"

\* delete obj[key]
Delete(obj, keys) == [k \in DOMAIN obj \ keys |-> obj[k]]

\* a loop that finds the reference and leaves it in place
SpliceFirst_Keep(phases, key) == phases

\* phases.splice(i, 1) at the first i with phases[i].value === key
SpliceFirst(phases, key) ==
    IF \E i \in 1..Len(phases) : phases[i] = key
    THEN LET i == CHOOSE i \in 1..Len(phases) :
                    /\ phases[i] = key
                    /\ \A j \in 1..(i - 1) : phases[j] # key
         IN  SubSeq(phases, 1, i - 1) \o SubSeq(phases, i + 1, Len(phases))
    ELSE phases

\* proj.getFirstTarget(): index of the first native target
FirstTarget(d) == 1

\* an iteration that deletes the phase and leaves its comment entry
UnpatchKey_KeepComment(d, key) ==
    IF key \notin DOMAIN d.scripts THEN d
    ELSE IF IsString(d.scripts[key]) THEN d
    ELSE IF RevertPattern(d.scripts[key].shellScript)
    THEN LET target == d.targets[FirstTarget(d)]
         IN  [scripts |-> Delete(d.scripts, {key}),
              targets |-> IF "buildPhases" \in DOMAIN target
                          THEN [d.targets EXCEPT ![FirstTarget(d)] =
                                  [target EXCEPT !.buildPhases =
                                      SpliceFirst(target.buildPhases, key)]]
                          ELSE d.targets]
    ELSE d

\* one iteration of the loop of unpatchXcodeBuildScripts, lines 101-123
UnpatchKey(d, key) ==
    IF key \notin DOMAIN d.scripts THEN d          \* script === undefined
    ELSE IF IsString(d.scripts[key]) THEN d        \* typeof script === 'string'
    ELSE IF RevertPattern(d.scripts[key].shellScript)
    THEN LET ft == FirstTarget(d)
             target == d.targets[ft]
             scripts2 == Delete(d.scripts, {key, CommentKey(key)})
         IN  IF "buildPhases" \in DOMAIN target
             THEN [scripts |-> scripts2,
                   targets |-> [d.targets EXCEPT ![ft] =
                       [target EXCEPT !.buildPhases = SpliceFirst(target.buildPhases, key)]]]
             ELSE [scripts |-> scripts2, targets |-> d.targets]
    ELSE d

RECURSIVE UnpatchKeys(_, _)
UnpatchKeys(d, keys) ==
    IF keys = {} THEN d
    ELSE LET key == CHOOSE k \in keys : TRUE
         IN  UnpatchKeys(UnpatchKey(d, key), keys \ {key})

\* unpatchXcodeBuildScripts, lines 95-124: the loop runs over the keys the
\* section had when the loop started
unpatchXcodeBuildScripts(d) == UnpatchKeys(d, DOMAIN d.scripts)

\* the build scripts patchXcodeProj collects, lines 135-143
BuildScripts(d) == {d.scripts[k] : k \in {k2 \in DOMAIN d.scripts : HasIsa(d.scripts[k2])}}

\* the uuids of the library for new objects; a new uuid is one not in use
NewUuids == <<"U1", "U2", "U3", "U4">>
UsedKeys(d) == DOMAIN d.scripts \cup {d.targets[t].uuid : t \in 1..Len(d.targets)}
GenerateUuid(d) ==
    NewUuids[CHOOSE i \in 1..Len(NewUuids) :
                /\ NewUuids[i] \notin UsedKeys(d)
                /\ \A j \in 1..(i - 1) : NewUuids[j] \in UsedKeys(d)]

\* a build phase whose reference is put in front of the target's phases
AddBuildPhase_Front(d, body) ==
    LET uuid == GenerateUuid(d)
        target == d.targets[FirstTarget(d)]
        scripts2 == [k \in DOMAIN d.scripts \cup {uuid, CommentKey(uuid)} |->
                        IF k = uuid THEN PhaseEntry(body)
                        ELSE IF k = CommentKey(uuid)
                        THEN CommentEntry("Upload Debug Symbols to Sentry")
                        ELSE d.scripts[k]]
    IN  IF "buildPhases" \in DOMAIN target
        THEN [scripts |-> scripts2,
              targets |-> [d.targets EXCEPT ![FirstTarget(d)] =
                  [target EXCEPT !.buildPhases = <<uuid>> \o target.buildPhases]]]
        ELSE [scripts |-> scripts2, targets |-> d.targets]

\* proj.addBuildPhase([], 'PBXShellScriptBuildPhase', comment, null, options),
\* the call of lines 168-179: a new phase and its comment in the section, and a
\* reference at the end of the first target's buildPhases when it has any
AddBuildPhase(d, body) ==
    LET uuid == GenerateUuid(d)
        ft == FirstTarget(d)
        target == d.targets[ft]
        scripts2 == [k \in DOMAIN d.scripts \cup {uuid, CommentKey(uuid)} |->
                        IF k = uuid THEN PhaseEntry(body)
                        ELSE IF k = CommentKey(uuid)
                        THEN CommentEntry("Upload Debug Symbols to Sentry")
                        ELSE d.scripts[k]]
    IN  IF "buildPhases" \in DOMAIN target
        THEN [scripts |-> scripts2,
              targets |-> [d.targets EXCEPT ![ft] =
                  [target EXCEPT !.buildPhases = Append(target.buildPhases, uuid)]]]
        ELSE [scripts |-> scripts2, targets |-> d.targets]

\* the build phase added without looking at the scripts already there
addNewXcodeBuildPhaseForSymbols_NoCheck(buildScripts, d) == AddBuildPhase(d, AddedScript)

\* addNewXcodeBuildPhaseForSymbols, lines 161-180
addNewXcodeBuildPhaseForSymbols(buildScripts, d) ==
    IF \E script \in buildScripts : ApplyPattern(script.shellScript)
    THEN d
    ELSE AddBuildPhase(d, AddedScript)

(***************************************************************************)
(* Project files.  The bytes of a file are a record: malformed bytes, or   *)
(* the descriptor they parse to and whether they are the bytes writeSync() *)
(* produces for it (a file formatted otherwise parses to the same          *)
(* descriptor and is written back in the library's own format).            *)
(***************************************************************************)
Malformed == [kind |-> "malformed"]
Pbx(d, canon) == [kind |-> "pbxproj", desc |-> d, canonical |-> canon]

\* proj.parse(callback): err for bytes that are no project file
ParseFails(bytes) == bytes.kind # "pbxproj"
Parsed(bytes) == bytes.desc

\* proj.writeSync(): the library's serialization of the descriptor
writeSync(d) == Pbx(d, TRUE)

\* what a patch function's promise settles to
Rejected == [tag |-> "rejected"]
ResolvedUndefined == [tag |-> "undefined"]
Resolved(bytes) == [tag |-> "content", content |-> bytes]

\* patchXcodeProj(contents, filename), lines 126-159; onDisk are the bytes
\* proj.parse reads from filename
patchXcodeProj(contents, onDisk) ==
    IF ParseFails(onDisk) THEN Rejected
    ELSE LET proj == Parsed(onDisk)
             newContents == writeSync(addNewXcodeBuildPhaseForSymbols(BuildScripts(proj), proj))
         IN  IF newContents = contents THEN ResolvedUndefined
             ELSE Resolved(newContents)

\* unpatchXcodeProj(contents, filename), lines 80-93
unpatchXcodeProj(contents, onDisk) ==
    IF ParseFails(onDisk) THEN Rejected
    ELSE Resolved(writeSync(unpatchXcodeBuildScripts(Parsed(onDisk))))

\* the patch function of an operation
PatchFunc(op, contents, onDisk) ==
    IF op = "apply" THEN patchXcodeProj(contents, onDisk)
    ELSE unpatchXcodeProj(contents, onDisk)

\* the caller of the patch function (patchMatchingFile): it writes the file
\* when the function resolved with new content
CallerWrites(ret) == ret.tag = "content"

(***************************************************************************)
(* The project files the model starts from.                                *)
(***************************************************************************)
KeyNames == <<"P1", "P2", "P3", "P4">>
TargetNames == <<"T1", "T2", "T3", "T4">>
SourcesPhase == "SRC"
ShellKeys == {KeyNames[i] : i \in 1..NumPhases}

OtherScript == <<Quote, WordChar, Quote>>
BareScript == <<Quote, CliName, Space, SubCommand, Quote>>
PluralScript == <<Quote, CliDir, CliName, Space, SubCommand, WordChar, Quote>>
UpperScript == <<Quote, CliNameUpper, Space, SubCommand, Quote>>
TwoSpaceScript == <<Quote, CliDir, CliName, Space, Space, SubCommand, Space, WordChar, Quote>>
SampleScripts == {OtherScript, AddedScript, BareScript, PluralScript, TwoSpaceScript}

Shapes == {"xcode", "reformatted", "nocomments", "nophases"}

\* which shell keys exist, with which script, and the target that owns each
Layouts(nT) == [ShellKeys -> {[absent |-> TRUE]} \cup [body : SampleScripts, owner : 1..nT]]

Present(layout) == {k \in ShellKeys : "absent" \notin DOMAIN layout[k]}

RECURSIVE OwnedFrom(_, _, _)
OwnedFrom(layout, t, i) ==
    IF i > NumPhases THEN <<>>
    ELSE (IF KeyNames[i] \in Present(layout) /\ layout[KeyNames[i]].owner = t
          THEN <<KeyNames[i]>> ELSE <<>>) \o OwnedFrom(layout, t, i + 1)

SampleTarget(layout, t, shape) ==
    LET owned == OwnedFrom(layout, t, 1)
        phases == IF t = 1 /\ shape # "nophases" THEN <<SourcesPhase>> \o owned ELSE owned
    IN  IF shape = "nophases" /\ phases = <<>>
        THEN [uuid |-> TargetNames[t]]
        ELSE [uuid |-> TargetNames[t], buildPhases |-> phases]

SampleDesc(layout, nT, shape) ==
    LET withComments == shape # "nocomments"
        keys == Present(layout) \cup
                (IF withComments THEN {CommentKey(k) : k \in Present(layout)} ELSE {})
    IN  [scripts |-> [k \in keys |->
                        IF k \in Present(layout) THEN PhaseEntry(layout[k].body)
                        ELSE CommentEntry("Run Script")],
         targets |-> [t \in 1..nT |-> SampleTarget(layout, t, shape)]]

(***************************************************************************)
(* State.                                                                  *)
(***************************************************************************)
VARIABLES
    file0,      \* the bytes of the project file before the first operation
    file,       \* the bytes of the project file now
    ops,        \* the patch operations run on the file, oldest first
    uninstall,  \* this.argv.uninstall
    platforms,  \* this.getPlatforms(answers)
    platformsError, \* this.getPlatforms(answers) throws instead of returning the list
    fs,         \* the project files on disk, path -> bytes
    props,      \* the platforms whose sentry.properties file exists
    dirs,       \* the directories that exist
    denied,     \* the paths the file system refuses to create or write
    units,      \* the asynchronous tasks of emit, id -> record
    emitState,  \* the promise emit returned: idle (not called), pending, resolved, rejected
    reds,       \* the number of red(e) calls
    greens,     \* the units that reported success
    propsWrites, \* the units whose writeFileSync of sentry.properties ran
    should,     \* the last call of shouldConfigurePlatform since emit, and its result
    pkgIn,      \* the arguments of the package helpers
    pkgOut      \* the values the package helpers returned

fileVars == <<file0, file, ops>>
pkgVars == <<pkgIn, pkgOut>>
orchVars == <<uninstall, platforms, platformsError, fs, props, dirs, denied, units, emitState, reds, greens,
              propsWrites, should>>
vars == <<file0, file, ops, uninstall, platforms, platformsError, fs, props, dirs, denied, units,
          emitState, reds, greens, propsWrites, should, pkgIn, pkgOut>>

(***************************************************************************)
(* Helper/Package.ts.  A version string of package.json is a record: an    *)
(* exact version "n.0.0", the ranges "^n.0.0", ">=n.0.0" and "*", the tag  *)
(* "latest", a string that is no version and no range (a URL, a path), the *)
(* empty string, or undefined for a package that is not declared.  A range *)
(* denotes the set of major versions 0..MaxMajor it admits.                *)
(***************************************************************************)
Majors == 0..MaxMajor
Undefined == [text |-> "undefined"]
EmptyString == [text |-> "empty"]
Latest == [text |-> "latest"]
Bogus == [text |-> "bogus"]
Exact(n) == [text |-> "exact", major |-> n]
Caret(n) == [text |-> "caret", major |-> n]
AtLeast(n) == [text |-> "atleast", major |-> n]
Star == [text |-> "star"]
Null == [text |-> "null"]

\* !!x of a string, undefined or null
Truthy(x) == x \notin {Undefined, EmptyString, Null}

\* x ?? ''
OrEmpty(x) == IF x \in {Undefined, Null} THEN EmptyString ELSE x

\* the versions a parsed range admits
RangeSet(range) ==
    IF range.text = "exact" \/ range.text = "caret" THEN {range.major}
    ELSE IF range.text = "atleast" THEN {n \in Majors : n >= range.major}
    ELSE Majors

\* semver valid(version): the version, or null when the string is none
valid(version) == IF version.text = "exact" THEN version ELSE Null

\* semver validRange(range): the range, '*' for the empty string, null when
\* the string is no range
validRange(range) ==
    IF range.text \in {"exact", "caret", "atleast", "star"} THEN range
    ELSE IF range.text = "empty" THEN Star
    ELSE Null

\* semver subset(sub, dom) and satisfies(version, range)
subset(sub, dom) == RangeSet(sub) \subseteq RangeSet(dom)
satisfies(version, range) == version.major \in RangeSet(range)

\* fulfillsVersionRange, lines 39-65
fulfillsVersionRange(version, acceptableVersions, canBeLatest) ==
    IF version = Latest THEN canBeLatest
    ELSE LET isVersion == Truthy(valid(version))
             isRange == ~isVersion /\ Truthy(validRange(version))
             cleanedUserVersion == IF isVersion THEN valid(version)
                                   ELSE IF isRange THEN validRange(version)
                                   ELSE Undefined
         IN  /\ Truthy(cleanedUserVersion)
             /\ IF isRange THEN subset(cleanedUserVersion, acceptableVersions)
                ELSE satisfies(cleanedUserVersion, acceptableVersions)

\* checkPackageVersion, lines 10-37; deps and devDeps are
\* appPackage?.dependencies?.[packageName] and its devDependencies twin
checkPackageVersion(deps, devDeps, acceptableVersions, canBeLatest) ==
    LET depsVersion == OrEmpty(deps)
        devDepsVersion == OrEmpty(devDeps)
    IN  IF ~Truthy(depsVersion) /\ ~Truthy(devDepsVersion) THEN FALSE
        ELSE IF /\ ~fulfillsVersionRange(depsVersion, acceptableVersions, canBeLatest)
                /\ ~fulfillsVersionRange(devDepsVersion, acceptableVersions, canBeLatest)
        THEN FALSE
        ELSE TRUE

\* hasPackageInstalled, lines 75-82
hasPackageInstalled(deps, devDeps) == Truthy(deps) \/ Truthy(devDeps)

\* what package.json can say of a package, and the ranges callers accept
DeclaredVersions ==
    {Undefined, Latest, Bogus, Star} \cup {Exact(n) : n \in Majors}
        \cup {Caret(n) : n \in Majors} \cup {AtLeast(n) : n \in Majors}
AcceptableRanges == {Star} \cup {Caret(n) : n \in Majors} \cup {AtLeast(n) : n \in Majors}

\* a returned boolean, or "none" before the call
BoolText(b) == IF b THEN "true" ELSE "false"

\* the package helpers not called
PkgIdle ==
    /\ pkgIn = [deps |-> Undefined, devDeps |-> Undefined, acceptableVersions |-> Star,
                canBeLatest |-> FALSE]
    /\ pkgOut = [check |-> "none", installed |-> "none"]

(***************************************************************************)
(* The file system of the orchestrator.                                    *)
(***************************************************************************)
Absent == [kind |-> "absent"]
IosProj == "platforms/ios/App.xcodeproj/project.pbxproj"
LibProj == "plugins/Lib.xcodeproj/project.pbxproj"
ProjPaths == {IosProj, LibProj}
PlatformNames == {"ios", "android"}
Root == "platforms"                                 \* folderPrefix, line 15
PlatformDir(platform) == Root \o "/" \o platform    \* path.join(folderPrefix, platform)
PropsPath(platform) == PlatformDir(platform) \o "/sentry.properties"

\* `platforms/ios/*.xcodeproj/project.pbxproj`, line 34
IosGlob == <<IosProj>>
\* '**/*.xcodeproj/project.pbxproj', lines 52 and 66
AnyGlob == <<IosProj, LibProj>>

\* the files of a glob pattern that exist, in the order of the scan
RECURSIVE Existing(_, _)
Existing(paths, files) ==
    IF paths = <<>> THEN <<>>
    ELSE (IF files[Head(paths)] # Absent THEN <<Head(paths)>> ELSE <<>>)
         \o Existing(Tail(paths), files)

\* the scripts in the text of a file
FileScripts(bytes) ==
    IF bytes.kind = "pbxproj"
    THEN {bytes.desc.scripts[k].shellScript : k \in {k2 \in DOMAIN bytes.desc.scripts :
                                                        HasIsa(bytes.desc.scripts[k2])}}
    ELSE {}

\* matchesContent(pattern, /sentry-cli/gi): some file of the pattern has
\* content that matches
matchesContent(paths, files) ==
    \E i \in 1..Len(paths) :
        /\ files[paths[i]] # Absent
        /\ \E body \in FileScripts(files[paths[i]]) : ConfigPattern(body)

\* exists(path) for a sentry.properties file
exists(platform, propsNow) == platform \in propsNow

\* a result the decision gets wrong in uninstall mode: not inverted
shouldConfigurePlatform_NoInvert(platform, isUninstall, files, propsNow) ==
    (~exists(platform, propsNow)) \/ (~matchesContent(AnyGlob, files))

\* shouldConfigurePlatform(platform), lines 59-78
shouldConfigurePlatform(platform, isUninstall, files, propsNow) ==
    LET result0 == FALSE
        result1 == IF ~exists(platform, propsNow) THEN TRUE ELSE result0
        result2 == IF ~matchesContent(AnyGlob, files) THEN TRUE ELSE result1
    IN  IF isUninstall THEN ~result2 ELSE result2

\* the directory part of addSentryProperties, lines 187-194: the directories
\* afterwards, and whether mkdirSync threw
MakeDirs(platform, dirsNow, refused) ==
    LET needRoot == Root \notin dirsNow
        rootThrows == needRoot /\ Root \in refused
        dirs1 == IF needRoot /\ ~rootThrows THEN dirsNow \cup {Root} ELSE dirsNow
        needDir == PlatformDir(platform) \notin dirs1
        dirThrows == ~rootThrows /\ needDir /\ PlatformDir(platform) \in refused
        dirs2 == IF ~rootThrows /\ needDir /\ ~dirThrows
                 THEN dirs1 \cup {PlatformDir(platform)} ELSE dirs1
    IN  [threw |-> rootThrows \/ dirThrows, dirs |-> dirs2]

(***************************************************************************)
(* The tasks of emit.  In Apply mode there is one unit per entry of the    *)
(* platform list (ids 1..n); in uninstall mode the single task 0 runs the  *)
(* revert pass.  pc of a unit:                                             *)
(*   new        not started                                                *)
(*   glob       patchMatchingFile called, files not located yet            *)
(*   read       next file of the pattern to be read                        *)
(*   parse      proj.parse running, callback not called yet                *)
(*   write      new content to be written to the file                      *)
(*   props      patch step finished, addSentryProperties to be called      *)
(*   propswrite writeFileSync of sentry.properties scheduled               *)
(*   done       the unit finished (success reported)                       *)
(*   failed     an error was caught and logged, the unit's promise resolved*)
(*   rejected   an error left the task, its promise rejected               *)
(***************************************************************************)
UnitIds == IF uninstall THEN {0} ELSE 1..Len(platforms)
NewUnit == [pc |-> "new", matches |-> <<>>, contents |-> Absent, ret |-> ResolvedUndefined,
            patchDone |-> FALSE]
PlatformOf(u) == platforms[u]
OpOf(u) == IF u = 0 THEN "revert" ELSE "apply"

\* a unit whose errors are not caught
ErrorPc_NoCatch(u) == "rejected"

\* a unit that goes on with the properties step after an error
ErrorPc_Props(u) == IF u = 0 THEN "rejected" ELSE "props"

\* where an error thrown in task u leaves it: the try/catch of lines 31-42
\* catches it in a platform unit; uninstall (lines 50-57) has no handler
ErrorPc(u) == IF u = 0 THEN "rejected" ELSE "failed"

\* a unit that skips the patch step
FirstStep_NoPatch(platform) == "props"

\* a unit that patches the ios project whatever its platform
FirstStep_AlwaysPatch(platform) == "glob"

\* the first step of a platform unit, lines 32-38
FirstStep(platform) == IF platform = "ios" THEN "glob" ELSE "props"

\* the promise of the task is settled
\* the executor of line 29 got the platform list and mapped it, line 30; a throw
\* of getPlatforms leaves the async executor before any unit exists
PlatformsListed == ~platformsError

\* a completion that does not wait for the task
TaskAwaited_NoAwait(u) == TRUE

\* the task's promise is fulfilled: Promise.all of line 44 and the await of
\* line 51 wait for it
TaskAwaited(u) == units[u].pc \in {"done", "failed"}

UnitSettled(u) == units[u].pc \in {"done", "failed", "rejected"}
Launched == \A u \in UnitIds : units[u].pc # "new"

\* an error in task u: red(e) in a platform unit (line 41), rejection otherwise
Fail(u) ==
    /\ units' = [units EXCEPT ![u].pc = ErrorPc(u)]
    /\ reds' = IF ErrorPc(u) = "failed" THEN reds + 1 ELSE reds

\* after the last file of the pattern: the patch step of unit u is finished
AfterPatch(u, unit) ==
    IF u = 0 THEN [unit EXCEPT !.pc = "done", !.patchDone = TRUE]
    ELSE [unit EXCEPT !.pc = "props", !.patchDone = TRUE]

\* the unit goes on with the next file of the pattern, or leaves the patch step
NextFileOf(u, unit) ==
    IF Len(unit.matches) > 1
    THEN [unit EXCEPT !.pc = "read", !.matches = Tail(unit.matches)]
    ELSE AfterPatch(u, [unit EXCEPT !.matches = <<>>])

OrchIdle ==
    /\ uninstall = FALSE
    /\ platforms = <<>>
    /\ platformsError = FALSE
    /\ fs = [path \in ProjPaths |-> Absent]
    /\ props = {}
    /\ dirs = {}
    /\ denied = {}
    /\ units = <<>>
    /\ emitState = "idle"
    /\ reds = 0
    /\ greens = {}
    /\ propsWrites = {}
    /\ should = [platform |-> "none", result |-> FALSE]

\* the project files the orchestrator starts from
CleanDesc == [scripts |-> <<>>,
              targets |-> <<[uuid |-> "T1", buildPhases |-> <<SourcesPhase>>]>>]
CleanFile == Pbx(CleanDesc, TRUE)
PatchedFile == writeSync(AddBuildPhase(CleanDesc, AddedScript))
FileWithScript(body) ==
    Pbx([scripts |-> [k \in {"P1"} |-> PhaseEntry(body)],
         targets |-> <<[uuid |-> "T1", buildPhases |-> <<SourcesPhase, "P1">>]>>], TRUE)
BareFile == FileWithScript(BareScript)
UpperFile == FileWithScript(UpperScript)

RECURSIVE SeqsUpTo(_, _)
SeqsUpTo(S, n) ==
    IF n = 0 THEN {<<>>}
    ELSE SeqsUpTo(S, n - 1) \cup {Append(q, x) : q \in {r \in SeqsUpTo(S, n - 1) : Len(r) = n - 1},
                                                 x \in S}

AllDirs == {Root} \cup {PlatformDir(platform) : platform \in PlatformNames}
AllDenied == AllDirs \cup {PropsPath(platform) : platform \in PlatformNames} \cup {IosProj}

Init ==
    /\ file0 = Malformed /\ file = Malformed /\ ops = <<>>
    /\ PkgIdle
    /\ uninstall \in BOOLEAN
    /\ platforms \in SeqsUpTo(PlatformNames, MaxPlatforms)
    /\ platformsError \in {b \in BOOLEAN : b => ~uninstall /\ platforms = <<>>}
    /\ fs \in {[path \in ProjPaths |-> IF path = IosProj THEN a ELSE b] :
                    a \in {Absent, Malformed, CleanFile, PatchedFile},
                    b \in {Absent, Malformed, BareFile, UpperFile}}
    /\ props \in SUBSET PlatformNames
    /\ dirs \in {ds \in SUBSET AllDirs :
                    /\ (ds # {} => Root \in ds)
                    /\ \A platform \in props : PlatformDir(platform) \in ds
                    /\ (fs[IosProj] # Absent => PlatformDir("ios") \in ds)}
    /\ denied \in {{}} \cup {{path} : path \in AllDenied}
    /\ units = [u \in UnitIds |-> NewUnit]
    /\ emitState = "idle"
    /\ reds = 0
    /\ greens = {}
    /\ propsWrites = {}
    /\ should = [platform |-> "none", result |-> FALSE]

\* shouldConfigurePlatform(platform) called while emit is not running
ShouldConfigure(platform) ==
    /\ emitState # "pending"
    /\ should' = [platform |-> platform,
                  result |-> shouldConfigurePlatform(platform, uninstall, fs, props)]
    /\ UNCHANGED <<fileVars, pkgVars, uninstall, platforms, platformsError, fs, props, dirs, denied, units, emitState,
                   reds, greens, propsWrites>>

\* emit(answers) is called, lines 22-29; the wizard has used the decision by then
EmitCall ==
    /\ emitState = "idle"
    /\ emitState' = "pending"
    /\ should' = [platform |-> "none", result |-> FALSE]
    /\ UNCHANGED <<fileVars, pkgVars, uninstall, platforms, platformsError, fs, props, dirs, denied, units, reds, greens,
                   propsWrites>>

\* addSentryProperties(platform, properties) up to its return, lines 183-199
PropsSync(u) ==
    LET made == MakeDirs(PlatformOf(u), dirs, denied)
    IN  /\ dirs' = made.dirs
        /\ IF made.threw THEN Fail(u)
           ELSE /\ units' = [units EXCEPT ![u].pc = "propswrite"]
                /\ UNCHANGED reds

\* the synchronous start of a task: the map callback of line 30 runs for each
\* platform in order up to its first await; uninstall calls patchMatchingFile
Launch(u) ==
    /\ emitState = "pending"
    /\ PlatformsListed
    /\ u \in UnitIds
    /\ units[u].pc = "new"
    /\ \A v \in UnitIds : v < u => units[v].pc # "new"
    /\ IF u # 0 /\ FirstStep(PlatformOf(u)) = "props"
       THEN PropsSync(u)
       ELSE /\ units' = [units EXCEPT ![u].pc = "glob"]
            /\ UNCHANGED <<dirs, reds>>
    /\ UNCHANGED <<fileVars, pkgVars, uninstall, platforms, platformsError, fs, props, denied, emitState, greens,
                   propsWrites, should>>

\* patchMatchingFile locates the files of the pattern
Glob(u) ==
    /\ Launched
    /\ u \in UnitIds
    /\ units[u].pc = "glob"
    /\ LET found == Existing(IF u = 0 THEN AnyGlob ELSE IosGlob, fs)
       IN  units' = [units EXCEPT ![u] =
                IF found = <<>> THEN AfterPatch(u, @)
                ELSE [@ EXCEPT !.pc = "read", !.matches = found]]
    /\ UNCHANGED <<fileVars, pkgVars, uninstall, platforms, platformsError, fs, props, dirs, denied, emitState, reds,
                   greens, propsWrites, should>>

\* patchMatchingFile reads the next file and calls the patch function, which
\* starts proj.parse, lines 81-83 and 127-129
Read(u) ==
    /\ Launched
    /\ u \in UnitIds
    /\ units[u].pc = "read"
    /\ units' = [units EXCEPT ![u].pc = "parse", ![u].contents = fs[Head(units[u].matches)]]
    /\ UNCHANGED <<fileVars, pkgVars, uninstall, platforms, platformsError, fs, props, dirs, denied, emitState, reds,
                   greens, propsWrites, should>>

\* the callback of proj.parse, lines 83-91 and 129-157
ParseCallback(u) ==
    /\ Launched
    /\ u \in UnitIds
    /\ units[u].pc = "parse"
    /\ LET ret == PatchFunc(OpOf(u), units[u].contents, fs[Head(units[u].matches)])
       IN  IF ret = Rejected THEN Fail(u)
           ELSE /\ units' = [units EXCEPT ![u] =
                        IF CallerWrites(ret) THEN [@ EXCEPT !.pc = "write", !.ret = ret]
                        ELSE NextFileOf(u, @)]
                /\ UNCHANGED reds
    /\ UNCHANGED <<fileVars, pkgVars, uninstall, platforms, platformsError, fs, props, dirs, denied, emitState, greens,
                   propsWrites, should>>

\* patchMatchingFile writes the new content
Write(u) ==
    /\ Launched
    /\ u \in UnitIds
    /\ units[u].pc = "write"
    /\ LET path == Head(units[u].matches)
       IN  IF path \in denied
           THEN Fail(u) /\ UNCHANGED fs
           ELSE /\ fs' = [fs EXCEPT ![path] = units[u].ret.content]
                /\ units' = [units EXCEPT ![u] = NextFileOf(u, [@ EXCEPT !.ret = ResolvedUndefined])]
                /\ UNCHANGED reds
    /\ UNCHANGED <<fileVars, pkgVars, uninstall, platforms, platformsError, props, dirs, denied, emitState, greens,
                   propsWrites, should>>

\* after the patch step of an ios unit: await this.addSentryProperties, line 38
Props(u) ==
    /\ Launched
    /\ u \in UnitIds
    /\ units[u].pc = "props"
    /\ PropsSync(u)
    /\ UNCHANGED <<fileVars, pkgVars, uninstall, platforms, platformsError, fs, props, denied, emitState, greens,
                   propsWrites, should>>

\* fs.writeFileSync(fn, ...) of line 197, then green(...) of line 39
PropsWrite(u) ==
    /\ Launched
    /\ u \in UnitIds
    /\ units[u].pc = "propswrite"
    /\ propsWrites' = propsWrites \cup {u}
    /\ IF PropsPath(PlatformOf(u)) \in denied
       THEN Fail(u) /\ UNCHANGED <<props, greens>>
       ELSE /\ props' = props \cup {PlatformOf(u)}
            /\ units' = [units EXCEPT ![u].pc = "done"]
            /\ greens' = greens \cup {u}
            /\ UNCHANGED reds
    /\ UNCHANGED <<fileVars, pkgVars, uninstall, platforms, platformsError, fs, dirs, denied, emitState, should>>

\* Promise.all(promises).then(resolve), lines 44-45; uninstall returns {}, line 56
EmitResolve ==
    /\ emitState = "pending"
    /\ PlatformsListed
    /\ Launched
    /\ \A u \in UnitIds : TaskAwaited(u)
    /\ emitState' = "resolved"
    /\ UNCHANGED <<fileVars, pkgVars, uninstall, platforms, platformsError, fs, props, dirs, denied, units, reds, greens,
                   propsWrites, should>>

\* Promise.all(promises).catch(reject), line 46; the await of line 51 throws
EmitReject ==
    /\ emitState = "pending"
    /\ PlatformsListed
    /\ Launched
    /\ \E u \in UnitIds : units[u].pc = "rejected"
    /\ emitState' = "rejected"
    /\ UNCHANGED <<fileVars, pkgVars, uninstall, platforms, platformsError, fs, props, dirs, denied, units, reds, greens,
                   propsWrites, should>>

Next ==
    \/ \E platform \in PlatformNames : ShouldConfigure(platform)
    \/ EmitCall
    \/ \E u \in 0..MaxPlatforms : Launch(u)
    \/ \E u \in 0..MaxPlatforms : Glob(u)
    \/ \E u \in 0..MaxPlatforms : Read(u)
    \/ \E u \in 0..MaxPlatforms : ParseCallback(u)
    \/ \E u \in 0..MaxPlatforms : Write(u)
    \/ \E u \in 0..MaxPlatforms : Props(u)
    \/ \E u \in 0..MaxPlatforms : PropsWrite(u)
    \/ EmitResolve
    \/ EmitReject

Spec == Init /\ [][Next]_vars

(***************************************************************************)
(* The patch engine on one file: read, parse, mutate, serialize, write.    *)
(***************************************************************************)
InitFile ==
    /\ \/ file0 = Malformed
       \/ \E nT \in 1..MaxTargets : \E layout \in Layouts(nT) : \E shape \in Shapes :
            file0 = Pbx(SampleDesc(layout, nT, shape), shape # "reformatted")
    /\ file = file0
    /\ ops = <<>>
    /\ OrchIdle
    /\ PkgIdle

PatchFile(op) ==
    /\ LET contents == file
           ret == PatchFunc(op, contents, file)
       IN  /\ file' = IF CallerWrites(ret) THEN ret.content ELSE file
           /\ ops' = Append(ops, [op |-> op, contents |-> contents, ret |-> ret,
                                  wrote |-> CallerWrites(ret), after |-> file'])
    /\ UNCHANGED file0
    /\ UNCHANGED orchVars
    /\ UNCHANGED pkgVars

\* Apply: patchMatchingFile with patchXcodeProj, lines 33-36
ApplyFile ==
    /\ Len(ops) < MaxOps
    /\ PatchFile("apply")

\* Revert: patchMatchingFile with unpatchXcodeProj, lines 51-54
RevertFile ==
    /\ Len(ops) < MaxOps
    /\ PatchFile("revert")

NextFile == ApplyFile \/ RevertFile

SpecFile == InitFile /\ [][NextFile]_vars

(***************************************************************************)
(* The package helpers on one package.json entry.                          *)
(***************************************************************************)
InitPkg ==
    /\ file0 = Malformed /\ file = Malformed /\ ops = <<>>
    /\ OrchIdle
    /\ pkgIn \in [deps : DeclaredVersions, devDeps : DeclaredVersions,
                  acceptableVersions : AcceptableRanges, canBeLatest : BOOLEAN]
    /\ pkgOut = [check |-> "none", installed |-> "none"]

CheckPackageVersion ==
    /\ pkgOut.check = "none"
    /\ pkgOut' = [pkgOut EXCEPT !.check =
            BoolText(checkPackageVersion(pkgIn.deps, pkgIn.devDeps, pkgIn.acceptableVersions,
                                         pkgIn.canBeLatest))]
    /\ UNCHANGED <<fileVars, orchVars, pkgIn>>

HasPackageInstalled ==
    /\ pkgOut.installed = "none"
    /\ pkgOut' = [pkgOut EXCEPT !.installed =
            BoolText(hasPackageInstalled(pkgIn.deps, pkgIn.devDeps))]
    /\ UNCHANGED <<fileVars, orchVars, pkgIn>>

NextPkg == CheckPackageVersion \/ HasPackageInstalled

SpecPkg == InitPkg /\ [][NextPkg]_vars

(***************************************************************************)
(* Properties of the patch engine (checked under SpecFile).                *)
(***************************************************************************)
Settled(i) == ops[i].ret.tag # "rejected"
Before(i) == Parsed(ops[i].contents)
After(i) == Parsed(ops[i].after)

\* the keys of the phase records of a descriptor, and the phases by key
PhaseKeys(d) == {k \in DOMAIN d.scripts : HasIsa(d.scripts[k])}
PhaseSet(d) == [k \in PhaseKeys(d) |-> d.scripts[k]]

\* the bytes the operation serialized
Serialized(i) ==
    IF ops[i].op = "apply"
    THEN writeSync(addNewXcodeBuildPhaseForSymbols(BuildScripts(Before(i)), Before(i)))
    ELSE writeSync(unpatchXcodeBuildScripts(Before(i)))

\* C1: a second Apply on the file a first Apply left adds no build phase,
\* resolves with no new content, and leaves the bytes as the first Apply
\* left them.
C1_ApplyIdempotent ==
    \A i \in 1..(Len(ops) - 1) :
        (ops[i].op = "apply" /\ ops[i + 1].op = "apply" /\ Settled(i)) =>
            /\ ops[i + 1].ret = ResolvedUndefined
            /\ ~ops[i + 1].wrote
            /\ ops[i + 1].after = ops[i].after
            /\ PhaseKeys(After(i + 1)) = PhaseKeys(After(i))

\* a first Apply that added the build phase and wrote the file, then a second
C1_Witness ==
    /\ Len(ops) = 2
    /\ ops[1].op = "apply" /\ ops[2].op = "apply"
    /\ ops[1].wrote
    /\ PhaseKeys(After(1)) # PhaseKeys(Before(1))

\* C3: for Apply and for Revert, the operation returns no new content (and
\* the file is not written) when the serialized descriptor equals the
\* original bytes, and returns new content only when the bytes differ.
C3_NoopWhenIdentical ==
    \A i \in 1..Len(ops) :
        Settled(i) =>
            /\ (Serialized(i) = ops[i].contents) => (ops[i].ret = ResolvedUndefined /\ ~ops[i].wrote)
            /\ (ops[i].ret.tag = "content") => (Serialized(i) # ops[i].contents /\ ops[i].wrote)

\* every id a target's buildPhases refers to is a phase of the descriptor
AllPhaseIds(d) == PhaseKeys(d) \cup {SourcesPhase}
NoDangling(d) ==
    \A t \in 1..Len(d.targets) :
        "buildPhases" \in DOMAIN d.targets[t] =>
            \A j \in 1..Len(d.targets[t].buildPhases) :
                d.targets[t].buildPhases[j] \in AllPhaseIds(d)

\* C4: Revert leaves no dangling reference: if every referenced id existed
\* before Revert, every referenced id exists after it, whichever target owns
\* the removed phase.
C4_RevertNoDangling ==
    \A i \in 1..Len(ops) :
        (ops[i].op = "revert" /\ Settled(i) /\ NoDangling(Before(i))) => NoDangling(After(i))

\* C5: Apply's check and Revert's matcher classify every script the same
\* way: the phases Revert removes are exactly the phases that make Apply skip
\* the insertion.
C5_SamePattern ==
    \A i \in 1..Len(ops) :
        (ops[i].op = "revert" /\ Settled(i)) =>
            \A k \in PhaseKeys(Before(i)) :
                (k \notin PhaseKeys(After(i))) <=> ApplyPattern(Before(i).scripts[k].shellScript)

\* the phase set and every target's buildPhases of two descriptors agree
SamePhasesAndOrder(d, e) ==
    /\ PhaseSet(d) = PhaseSet(e)
    /\ d.targets = e.targets

HasRevertMatch(d) == \E k \in PhaseKeys(d) : RevertPattern(d.scripts[k].shellScript)

\* C7 as stated: for any descriptor, Apply then Revert restores the phase set
\* and every target's buildPhases.
C7_InverseAnyDescriptor ==
    \A i \in 1..(Len(ops) - 1) :
        (ops[i].op = "apply" /\ ops[i + 1].op = "revert" /\ Settled(i)) =>
            SamePhasesAndOrder(After(i + 1), Before(i))

\* C7 amended: for any descriptor with no ShellScript phase matching Revert's
\* pattern, Apply then Revert restores the phase set and every target's
\* buildPhases.
C7_InverseWhenUnpatched ==
    \A i \in 1..(Len(ops) - 1) :
        (ops[i].op = "apply" /\ ops[i + 1].op = "revert" /\ Settled(i)
            /\ ~HasRevertMatch(Before(i))) =>
            SamePhasesAndOrder(After(i + 1), Before(i))

\* Apply added the phase to a target with build phases and Revert took it out
C7_Witness ==
    /\ Len(ops) = 2
    /\ ops[1].op = "apply" /\ ops[2].op = "revert"
    /\ ~HasRevertMatch(Before(1))
    /\ PhaseKeys(After(1)) # PhaseKeys(Before(1))
    /\ After(1).targets # Before(1).targets
    /\ PhaseKeys(After(2)) = PhaseKeys(Before(1))

\* the phases Apply looks for, and the phases Revert looks for
HasApplyMatch(d) == \E k \in PhaseKeys(d) : ApplyPattern(d.scripts[k].shellScript)
RevertMatches(d) == {k \in PhaseKeys(d) : RevertPattern(d.scripts[k].shellScript)}
HasPhases(target) == "buildPhases" \in DOMAIN target

\* C13: an Apply on a descriptor without a phase of Apply's pattern adds
\* exactly one ShellScript phase, appends its id as the last element of the
\* first target's buildPhases (a first target without a buildPhases list gets
\* no reference), and leaves every other phase record, every other target and
\* the order of the references that were there unchanged; an Apply on a
\* descriptor with such a phase leaves the descriptor as it was.
C13_ApplyFrame ==
    \A i \in 1..Len(ops) :
        (ops[i].op = "apply" /\ Settled(i)) =>
            LET d == Before(i)
                e == After(i)
                first == FirstTarget(d)
            IN  IF HasApplyMatch(d) THEN e = d
                ELSE /\ Cardinality(PhaseKeys(e) \ PhaseKeys(d)) = 1
                     /\ PhaseKeys(d) \subseteq PhaseKeys(e)
                     /\ \A k \in DOMAIN d.scripts :
                            k \in DOMAIN e.scripts /\ e.scripts[k] = d.scripts[k]
                     /\ \A k \in PhaseKeys(e) \ PhaseKeys(d) :
                            /\ e.scripts[k].isa = "PBXShellScriptBuildPhase"
                            /\ IF HasPhases(d.targets[first])
                               THEN e.targets[first] =
                                        [d.targets[first] EXCEPT !.buildPhases =
                                            Append(d.targets[first].buildPhases, k)]
                               ELSE e.targets[first] = d.targets[first]
                     /\ Len(e.targets) = Len(d.targets)
                     /\ \A t \in 1..Len(d.targets) : t # first => e.targets[t] = d.targets[t]

\* an Apply that added the phase after the two references the first target had,
\* in a descriptor that has another phase
C13_Witness ==
    /\ Len(ops) >= 1
    /\ ops[1].op = "apply"
    /\ Settled(1)
    /\ ~HasApplyMatch(Before(1))
    /\ PhaseKeys(Before(1)) # {}
    /\ HasPhases(Before(1).targets[1])
    /\ Len(Before(1).targets[1].buildPhases) = 2
    /\ Len(After(1).targets[1].buildPhases) = 3

\* C14: a Revert removes every phase whose script matches Revert's pattern and
\* no other phase, takes each removed id out of the buildPhases of every
\* target, keeps the order of the remaining references, and leaves the other
\* phase records unchanged; with no matching phase it settles without error
\* and leaves the descriptor unchanged.
C14_RevertFrame ==
    \A i \in 1..Len(ops) :
        (ops[i].op = "revert" /\ ~ParseFails(ops[i].contents)) =>
            LET d == Before(i)
                e == After(i)
                Stays(k) == k \notin RevertMatches(d)
            IN  /\ Settled(i)
                /\ PhaseKeys(e) = PhaseKeys(d) \ RevertMatches(d)
                /\ \A k \in PhaseKeys(e) : e.scripts[k] = d.scripts[k]
                /\ Len(e.targets) = Len(d.targets)
                /\ \A t \in 1..Len(d.targets) :
                        IF HasPhases(d.targets[t])
                        THEN e.targets[t] =
                                [d.targets[t] EXCEPT !.buildPhases =
                                    SelectSeq(d.targets[t].buildPhases, Stays)]
                        ELSE e.targets[t] = d.targets[t]
                /\ (RevertMatches(d) = {}) => e = d

\* every phase has its comment entry and every comment entry its phase
Paired(d) ==
    /\ \A k \in PhaseKeys(d) : CommentKey(k) \in DOMAIN d.scripts
    /\ \A c \in DOMAIN d.scripts :
            IsString(d.scripts[c]) => \E k \in PhaseKeys(d) : c = CommentKey(k)

\* C15: a Revert keeps phases and comment entries paired: a descriptor paired
\* before is paired after, the comment entry of a phase is deleted exactly when
\* the phase is, only phases of Revert's pattern go, and every entry that
\* remains is unchanged.
C15_CommentsPaired ==
    \A i \in 1..Len(ops) :
        (ops[i].op = "revert" /\ Settled(i)) =>
            LET d == Before(i)
                e == After(i)
            IN  /\ Paired(d) => Paired(e)
                /\ DOMAIN e.scripts \subseteq DOMAIN d.scripts
                /\ \A k \in DOMAIN e.scripts : e.scripts[k] = d.scripts[k]
                /\ \A k \in PhaseKeys(d) :
                        /\ (k \notin DOMAIN e.scripts) => k \in RevertMatches(d)
                        /\ (CommentKey(k) \in DOMAIN d.scripts) =>
                                (k \in DOMAIN e.scripts <=> CommentKey(k) \in DOMAIN e.scripts)

\* a Revert on a paired descriptor that removed one phase with its comment
\* entry and kept another phase with its comment entry
C15_Witness ==
    /\ Len(ops) >= 1
    /\ ops[1].op = "revert"
    /\ Settled(1)
    /\ Paired(Before(1))
    /\ \E k \in PhaseKeys(Before(1)) :
            k \notin DOMAIN After(1).scripts /\ CommentKey(k) \notin DOMAIN After(1).scripts
    /\ \E k \in PhaseKeys(After(1)) : CommentKey(k) \in DOMAIN After(1).scripts

(***************************************************************************)
(* Properties of the orchestrator (checked under Spec).                    *)
(***************************************************************************)
\* what makes the unit of a platform fail on its own: its project file does
\* not parse or cannot be written, or its directory or properties file cannot
\* be created
PatchFault(platform) ==
    /\ platform = "ios"
    /\ \/ fs[IosProj] = Malformed
       \/ (IosProj \in denied /\ fs[IosProj] = CleanFile)
OwnFault(platform) ==
    \/ PatchFault(platform)
    \/ (Root \in denied /\ Root \notin dirs)
    \/ (PlatformDir(platform) \in denied /\ PlatformDir(platform) \notin dirs)
    \/ PropsPath(platform) \in denied

\* C2: in Apply mode no unit's failure reaches another unit or the promise of
\* emit: the promise never rejects, a unit fails only on a fault of its own
\* platform, no unit is ever left unable to go on while emit is pending, and
\* once emit has resolved every unit without such a fault has run to
\* completion and written its properties file.
C2_UnitsIndependent ==
    ~uninstall =>
        /\ emitState # "rejected"
        /\ (emitState = "pending" /\ PlatformsListed) => ENABLED Next
        /\ \A u \in UnitIds :
            /\ units[u].pc # "rejected"
            /\ (units[u].pc = "failed") => OwnFault(PlatformOf(u))
            /\ (emitState = "resolved") =>
                /\ units[u].pc \in {"done", "failed"}
                /\ (units[u].pc = "done") <=> ~OwnFault(PlatformOf(u))
                /\ (units[u].pc = "done") => (PlatformOf(u) \in props /\ u \in greens)

\* emit resolved with one unit failed and another platform's unit complete
C2_Witness ==
    /\ ~uninstall
    /\ emitState = "resolved"
    /\ \E u \in UnitIds : \E v \in UnitIds :
        /\ units[u].pc = "failed" /\ PatchFault(PlatformOf(u))
        /\ units[v].pc = "done" /\ PlatformOf(v) # PlatformOf(u)
        /\ PlatformOf(v) \in props

\* the marker file of the platform exists / some located project file matches
MarkerExists(platform) == platform \in props
SomeFileMatches ==
    \E path \in ProjPaths :
        /\ fs[path] # Absent
        /\ \E body \in FileScripts(fs[path]) : ConfigPattern(body)

\* C6: in Apply mode shouldConfigurePlatform returns true exactly when the
\* marker file is absent or no located project file matches the pattern; in
\* uninstall mode it returns true exactly when the marker file exists and some
\* project file matches.
C6_DecisionRule ==
    should.platform # "none" =>
        IF uninstall
        THEN should.result <=> (MarkerExists(should.platform) /\ SomeFileMatches)
        ELSE should.result <=> (~MarkerExists(should.platform) \/ ~SomeFileMatches)

\* the decision taken in uninstall mode for a platform that shows the marker
C6_Witness ==
    /\ uninstall
    /\ should.platform = "ios"
    /\ should.result
    /\ MarkerExists("ios") /\ SomeFileMatches

\* C8: the promise of emit never rejects, in Apply mode and in uninstall mode.
C8_EmitNeverRejects == emitState # "rejected"

\* C9: after emit resolved in Apply mode, shouldConfigurePlatform returns
\* false for every platform whose unit completed; after uninstall resolved it
\* returns false for every platform.
C9_PatchedAfterEmit ==
    emitState = "resolved" =>
        IF uninstall
        THEN \A platform \in PlatformNames :
                ~shouldConfigurePlatform(platform, TRUE, fs, props)
        ELSE \A u \in greens :
                ~shouldConfigurePlatform(PlatformOf(u), FALSE, fs, props)

\* C10: an ios unit writes sentry.properties only after its patchMatchingFile
\* has finished.
C10_PatchBeforeProps ==
    \A u \in UnitIds :
        (u # 0 /\ PlatformOf(u) = "ios" /\ u \in propsWrites) => units[u].patchDone

\* an ios unit patched the project file and wrote its properties while another
\* unit was still running
C10_Witness ==
    \E u \in UnitIds : \E v \in UnitIds :
        /\ u # 0 /\ PlatformOf(u) = "ios" /\ u \in propsWrites
        /\ fs[IosProj] = PatchedFile
        /\ v # u /\ ~UnitSettled(v)

\* the revert pass left no phase of Revert's pattern in any project file
RevertedEverywhere ==
    \A path \in ProjPaths :
        \A body \in FileScripts(fs[path]) : ~RevertPattern(body)

\* C11: in uninstall mode the promise of emit resolves only after the revert
\* pass has finished with every located project file (no file is being read,
\* parsed or written, and no file still has a phase of Revert's pattern), and
\* no platform unit exists, no sentry.properties is written and no success is
\* reported.
C11_RevertBeforeCompletion ==
    uninstall =>
        /\ DOMAIN units = {0}
        /\ units[0].pc \notin {"props", "propswrite", "failed"}
        /\ propsWrites = {} /\ greens = {}
        /\ (emitState = "resolved") =>
            /\ units[0].pc = "done"
            /\ units[0].patchDone
            /\ units[0].matches = <<>>
            /\ RevertedEverywhere

\* uninstall resolved after the revert pass rewrote the patched ios project
C11_Witness ==
    /\ uninstall
    /\ emitState = "resolved"
    /\ units[0].contents = PatchedFile
    /\ fs[IosProj] \notin {PatchedFile, Absent}

\* the platform list has no platform twice
PairwiseDistinct ==
    \A i \in 1..Len(platforms) : \A j \in 1..Len(platforms) :
        i # j => platforms[i] # platforms[j]

\* the files of a platform: the ios project file for ios, and the properties
\* file of the platform
PlatformFiles(platform) ==
    (IF platform = "ios" THEN {IosProj} ELSE {}) \cup {PropsPath(platform)}

\* unit u has read a project file and has not yet finished with it
InFile(u) == units[u].pc \in {"parse", "write"}

\* C12: when the platforms of the list are pairwise distinct, the file sets of
\* two units are disjoint, a unit is only ever inside a file of its own
\* platform, and no two units are between the read and the write of the same
\* file at the same time.
C12_DisjointFiles ==
    (~uninstall /\ PairwiseDistinct) =>
        \A u \in UnitIds :
            /\ InFile(u) => Head(units[u].matches) \in PlatformFiles(PlatformOf(u))
            /\ \A v \in UnitIds :
                u # v =>
                    /\ PlatformFiles(PlatformOf(u)) \cap PlatformFiles(PlatformOf(v)) = {}
                    /\ ~(/\ InFile(u) /\ InFile(v)
                         /\ Head(units[u].matches) = Head(units[v].matches))

\* two distinct platforms: the ios unit holds new content of the project file
\* to write while the other unit has not finished
C12_Witness ==
    /\ ~uninstall
    /\ PairwiseDistinct
    /\ \E u \in UnitIds : \E v \in UnitIds :
        /\ u # v
        /\ units[u].pc = "write"
        /\ units[v].pc = "propswrite"

\* C16: in Apply mode the promise of emit never stays pending with nothing
\* left to run: while it is pending some step of emit can be taken, also when
\* getPlatforms throws in the executor and when a patch step rejects.
C16_EmitSettles ==
    (~uninstall /\ emitState = "pending") => ENABLED Next

\* the patch step of unit u ended without finishing
PatchRejected(u) ==
    /\ ~units[u].patchDone
    /\ units[u].pc \notin {"new", "glob", "read", "parse", "write"}

\* C17: an ios unit whose patch step rejected stays failed: it never writes
\* sentry.properties and never reports success; every caught error is logged
\* once, so the number of red(e) calls is the number of failed units.
C17_FailedPatchStops ==
    ~uninstall =>
        /\ reds = Cardinality({u \in UnitIds : units[u].pc = "failed"})
        /\ \A u \in UnitIds :
            (PlatformOf(u) = "ios" /\ PatchRejected(u)) =>
                /\ units[u].pc = "failed"
                /\ u \notin propsWrites
                /\ u \notin greens

\* emit resolved after the patch step of the only ios unit rejected, while
\* another platform's unit wrote its properties
C17_Witness ==
    /\ ~uninstall
    /\ emitState = "resolved"
    /\ reds = 1
    /\ \E u \in UnitIds : PlatformOf(u) = "ios" /\ PatchRejected(u)
    /\ \E v \in UnitIds : PlatformOf(v) = "android" /\ v \in greens

(***************************************************************************)
(* Properties of the package helpers (checked under SpecPkg).              *)
(***************************************************************************)
\* the package is declared in the section
Declared(version) == version # Undefined

\* a declared version fulfils the acceptable range: an exact version that is
\* in it, a range inside it, or the tag latest when canBeLatest
VersionFulfils(version) ==
    IF version = Latest THEN pkgIn.canBeLatest
    ELSE IF version.text = "exact" THEN version.major \in RangeSet(pkgIn.acceptableVersions)
    ELSE IF version.text \in {"caret", "atleast", "star"}
    THEN RangeSet(version) \subseteq RangeSet(pkgIn.acceptableVersions)
    ELSE FALSE

\* C18: checkPackageVersion returns false for a package declared in neither
\* section, otherwise it returns true exactly when a version declared in
\* dependencies or in devDependencies fulfils the acceptable range ('latest'
\* exactly when canBeLatest); and when it returns true hasPackageInstalled
\* returns true.
C18_CheckPackageVersion ==
    pkgOut.check # "none" =>
        /\ (~Declared(pkgIn.deps) /\ ~Declared(pkgIn.devDeps)) => pkgOut.check = "false"
        /\ (Declared(pkgIn.deps) \/ Declared(pkgIn.devDeps)) =>
                (pkgOut.check = "true" <=>
                    \E version \in {pkgIn.deps, pkgIn.devDeps} :
                        Declared(version) /\ VersionFulfils(version))
        /\ (pkgOut.check = "true" /\ pkgOut.installed # "none") => pkgOut.installed = "true"

====
